---- MODULE Spec2Model ----
(***************************************************************************)
(* A model of metasim/randomization/base.py: the seeded RNG provider of    *)
(* BaseRandomizerType (__init__, seed, rng, set_seed), handler binding,    *)
(* and the render-settle barrier (_sync_visual_updates and its three       *)
(* phases).  The barrier is modelled statement by statement: every call    *)
(* into a collaborator is one step whose outcome (returns / raises) is     *)
(* chosen nondeterministically, and is recorded in the ghost trace `calls` *)
(* and the ghost log `logged`.                                             *)
(***************************************************************************)
EXTENDS Integers, Sequences, FiniteSets, TLC

(***************************************************************************)
(* Bounds of the model.                                                    *)
(***************************************************************************)
\* settle_passes ranges over -1 .. MaxPasses
MaxPasses == 2
\* a scene registers at most MaxSensors sensors (ids 1 .. MaxSensors)
MaxSensors == 2
\* width, in bits, of the modelled generators (64 bits / MT19937 in the code)
RngBits == 3
\* explicit seeds passed by callers range over 0 .. MaxSeed
MaxSeed == 2
\* draws made from one generator between two reseeds
MaxDraws == 2

(***************************************************************************)
(* Optional values (Python's None): the empty sequence is None, a          *)
(* one-element sequence is a present value.                                *)
(***************************************************************************)
None == <<>>
Some(x) == <<x>>
IsNone(o) == o = <<>>
Val(o) == o[1]

Providers == {1, 2}

(***************************************************************************)
(* The pseudo-random generators.  random.Random is abstracted to a         *)
(* full-period linear congruential generator of RngBits bits: what the     *)
(* claims need is that a generator is a deterministic function of the seed *)
(* it was created from and of the number of draws made since.              *)
(***************************************************************************)
Modulus == 2 ^ RngBits
LcgNext(s) == (5 * s + 3) % Modulus
\* random.Random(seed): a fresh generator initialised from exactly `seed`
NewRandom(s) == s % Modulus
\* one draw from a generator in state s: the new state and the value drawn
DrawFrom(s) == [state |-> LcgNext(s), value |-> LcgNext(s)]
\* random.getrandbits(64) on the process-wide generator in state g
GetRandBits(g) == DrawFrom(g)

SeedArgs == {None} \cup {Some(s) : s \in 0 .. MaxSeed}
OptionSets == {{}, {"strength"}}

(***************************************************************************)
(* Shapes of the handler bound to a randomizer.                            *)
(***************************************************************************)
SensorIds == 1 .. MaxSensors
\* the values() of a sensors mapping, in iteration order.  A sensor is
\* identified by its place in that order: the code tells sensors apart in
\* no other way, so every mapping of n sensors, however keyed and ordered,
\* is the sequence <<1, ..., n>>
SensorOrders == {[i \in 1 .. n |-> i] : n \in 0 .. MaxSensors}
\* kind: no `scene` attribute, `scene` is None, or a scene object;
\* hasSensors: whether the scene object has a `sensors` attribute
SceneShapes ==
    {[kind |-> k, hasSensors |-> FALSE, sensors |-> <<>>] :
        k \in {"absent", "none", "present"}}
    \cup {[kind |-> "present", hasSensors |-> TRUE, sensors |-> o] :
            o \in SensorOrders}
SimShapes == {"absent", "none", "present"}
NoHandler == [isNone |-> TRUE,
              scene |-> [kind |-> "absent", hasSensors |-> FALSE, sensors |-> <<>>],
              sim |-> "absent"]
HandlerShapes ==
    {NoHandler} \cup
    {[isNone |-> FALSE, scene |-> sc, sim |-> sm] :
        sc \in SceneShapes, sm \in SimShapes}

(***************************************************************************)
(* Exceptions.  "ImportError" is ImportError and its subclasses,           *)
(* "Exception" any other subclass of Exception.                            *)
(***************************************************************************)
ExcKinds == {"ImportError", "Exception"}
\* outcomes of a call into the material library or the async engine
CallOutcomes == {"ok"} \cup ExcKinds
\* outcomes of a call in the settle loop, where one clause handles them all
SettleOutcomes == {"ok", "raise"}

\* the method names probed on the material-library singleton, in order
WaitMethodNames ==
    <<"wait_for_pending_refreshes", "wait_for_pending_compiles",
      "wait_for_pending_compile", "wait_for_pending_tasks">>
NoModule == [loaded |-> FALSE, wait_fn |-> FALSE, get_instance |-> FALSE]
ModuleShapes ==
    {[loaded |-> TRUE, wait_fn |-> w, get_instance |-> g] :
        w \in BOOLEAN, g \in BOOLEAN}
InstanceShapes == SUBSET {WaitMethodNames[i] : i \in DOMAIN WaitMethodNames}

VARIABLES
    globalRng,        \* state of the process-wide generator (module random)
    seed,             \* seed[p]: self._seed, None or Some(int)
    rng,              \* rng[p]: self._rng, None or Some(generator state)
    options,          \* options[p]: self.randomizer_options
    handler,          \* handler[p]: self.handler
    lastBound,        \* ghost: the handler given to the last bind_handler on p
    draws,            \* ghost: values drawn from rng[p] since it was created
    seededBy,         \* ghost: what resolved seed[p] last, or "unseeded"
    lastSetSeed,      \* ghost: the set_seed call observed last on p
    pc,               \* position of the barrier call in progress, or "idle"
    self,             \* the randomizer the barrier call runs on
    waitForMaterials, \* argument wait_for_materials
    settlePasses,     \* argument settle_passes
    matlib,           \* local of _wait_for_material_library: the module
    instance,         \* local: callable wait methods of get_instance()
    waited,           \* local `waited`
    exc,              \* the exception in flight, or "none"
    passes,           \* local `passes` of _settle_renderer_frames
    passIdx,          \* number of the settle pass in progress (1-based)
    sensorList,       \* local: sensors.values() of the pass in progress
    sensorIdx,        \* index in sensorList of the next sensor to update
    sceneRaisedAt,    \* ghost: pass whose scene update raised, or 0
    calls,            \* ghost: the calls made into collaborators, in order
    logged,           \* ghost: the log entries emitted by this barrier call
    status            \* "idle", "running", "returned" or "raised"

rngVars == <<globalRng, seed, rng, draws, seededBy, lastSetSeed>>
objVars == <<options, handler, lastBound>>
argVars == <<self, waitForMaterials, settlePasses>>
matVars == <<matlib, instance, waited>>
settleVars == <<passes, passIdx, sensorList, sensorIdx, sceneRaisedAt>>
ghostVars == <<calls, logged>>
vars == <<globalRng, seed, rng, draws, seededBy, lastSetSeed, options, handler,
          lastBound, pc, self,
          waitForMaterials, settlePasses, matlib, instance, waited, exc,
          passes, passIdx, sensorList, sensorIdx, sceneRaisedAt, calls,
          logged, status>>

(***************************************************************************)
(* Seeded RNG provider: __init__, set_seed, the rng property, draws.       *)
(***************************************************************************)
\* a slip in set_seed: the process-wide generator is drawn from on every
\* call, also when a seed is given
SetSeedValuesAlwaysDraws(seedArg, g) ==
    LET derived == GetRandBits(g)
        s == IF IsNone(seedArg) THEN derived.value ELSE Val(seedArg)
    IN  [seed |-> Some(s), rng |-> Some(NewRandom(s)), global |-> derived.state]

\* a slip in set_seed: the generator is initialised from the process-wide
\* generator, whatever seed is stored
SetSeedValuesUnrelatedGenerator(seedArg, g) ==
    LET derived == GetRandBits(g)
        s == IF IsNone(seedArg) THEN derived.value ELSE Val(seedArg)
    IN  [seed |-> Some(s),
         rng |-> Some(NewRandom(derived.value)),
         global |-> IF IsNone(seedArg) THEN derived.state ELSE g]

\* set_seed(seed) with the process-wide generator in state g (lines 45-49):
\* the resolved seed, the fresh generator, the process-wide generator after
SetSeedValues(seedArg, g) ==
    LET derived == GetRandBits(g)
        s == IF IsNone(seedArg) THEN derived.value ELSE Val(seedArg)
    IN  [seed |-> Some(s),
         rng |-> Some(NewRandom(s)),
         global |-> IF IsNone(seedArg) THEN derived.state ELSE g]

\* a slip in set_seed: an existing generator is kept instead of replaced
SetSeedKeepsGenerator(p, seedArg) ==
    LET r == SetSeedValues(seedArg, globalRng)
    IN  [r EXCEPT !.rng = IF IsNone(rng[p]) THEN r.rng ELSE rng[p]]

\* a slip in set_seed: a generator that has been drawn from is not replaced
SetSeedKeepsUsedGenerator(p, seedArg) ==
    LET r == SetSeedValues(seedArg, globalRng)
    IN  [r EXCEPT !.rng = IF draws[p] = <<>> THEN r.rng ELSE rng[p]]

\* set_seed called on provider p in the current state
SetSeedFields(p, seedArg) == SetSeedValues(seedArg, globalRng)

\* __init__(seed=seedArg) (lines 19-25)
ConstructValues(seedArg, g) ==
    IF IsNone(seedArg)
    THEN [seed |-> None, rng |-> None, global |-> g]
    ELSE SetSeedValues(seedArg, g)

NoExc == [kind |-> "none", cause |-> "none"]

\* no set_seed call has been observed on a provider
NotObserved == [called |-> FALSE, arg |-> None, after |-> 0]

\* the fields of the barrier call when no call is in progress
BarrierIdle ==
    /\ pc = "idle"
    /\ self = 1
    /\ waitForMaterials = FALSE
    /\ settlePasses = 0
    /\ matlib = NoModule
    /\ instance = {}
    /\ waited = FALSE
    /\ exc = NoExc
    /\ passes = 0
    /\ passIdx = 0
    /\ sensorList = <<>>
    /\ sensorIdx = 0
    /\ sceneRaisedAt = 0
    /\ calls = <<>>
    /\ logged = {}
    /\ status = "idle"

\* every provider freshly constructed, with any seed argument and options,
\* in any state of the process-wide generator
Init ==
    /\ globalRng \in 0 .. Modulus - 1
    /\ \E a \in [Providers -> SeedArgs] :
        /\ seed = [p \in Providers |-> ConstructValues(a[p], globalRng).seed]
        /\ rng = [p \in Providers |-> ConstructValues(a[p], globalRng).rng]
    /\ seededBy = [p \in Providers |->
                        IF IsNone(seed[p]) THEN "unseeded" ELSE "constructor"]
    /\ options \in [Providers -> OptionSets]
    /\ handler = [p \in Providers |-> NoHandler]
    /\ lastBound = [p \in Providers |-> NoHandler]
    /\ draws = [p \in Providers |-> <<>>]
    /\ lastSetSeed = [p \in Providers |-> NotObserved]
    /\ BarrierIdle

\* every provider constructed with the defaults: BaseRandomizerType()
InitDefault ==
    /\ globalRng = 0
    /\ seed = [p \in Providers |-> ConstructValues(None, globalRng).seed]
    /\ rng = [p \in Providers |-> ConstructValues(None, globalRng).rng]
    /\ seededBy = [p \in Providers |-> "unseeded"]
    /\ options = [p \in Providers |-> {}]
    /\ handler = [p \in Providers |-> NoHandler]
    /\ lastBound = [p \in Providers |-> NoHandler]
    /\ draws = [p \in Providers |-> <<>>]
    /\ lastSetSeed = [p \in Providers |-> NotObserved]
    /\ BarrierIdle

barrierVars == <<pc, self, waitForMaterials, settlePasses, matlib, instance,
                 waited, exc, passes, passIdx, sensorList, sensorIdx,
                 sceneRaisedAt, calls, logged, status>>

\* what set_seed(seedArg) does to provider p (lines 39-49)
SetSeedCall(p, seedArg) ==
    /\ pc = "idle"
    /\ LET r == SetSeedFields(p, seedArg)
       IN  /\ seed' = [seed EXCEPT ![p] = r.seed]
           /\ rng' = [rng EXCEPT ![p] = r.rng]
           /\ globalRng' = r.global
    /\ draws' = [draws EXCEPT ![p] = <<>>]
    /\ seededBy' = [seededBy EXCEPT ![p] = "set_seed"]
    /\ UNCHANGED <<objVars, barrierVars>>

\* set_seed(seedArg) on provider p (lines 39-49)
SetSeed(p, seedArg) ==
    /\ SetSeedCall(p, seedArg)
    /\ UNCHANGED lastSetSeed

\* set_seed(seedArg) on provider p, observed: the ghost lastSetSeed keeps the
\* argument of the call and the number of draws that had been made from the
\* generator the call replaced (none if there was no generator)
SetSeedObserved(p, seedArg) ==
    /\ SetSeedCall(p, seedArg)
    /\ lastSetSeed' = [lastSetSeed EXCEPT ![p] =
            [called |-> TRUE, arg |-> seedArg, after |-> Len(draws[p])]]

\* the seed property (lines 27-30): reads self._seed
ReadSeed(p) ==
    /\ pc = "idle"
    /\ UNCHANGED vars

\* a slip in the rng property: set_seed runs on every access, not only while
\* no generator exists
RngPropertyAlwaysReseeds(p) == SetSeedFields(p, seed[p])

\* the fields after evaluating the rng property on p (lines 32-37)
RngPropertyFields(p) ==
    IF IsNone(rng[p])
    THEN SetSeedFields(p, seed[p])
    ELSE [seed |-> seed[p], rng |-> rng[p], global |-> globalRng]

\* reading the rng property without drawing
GetRng(p) ==
    /\ pc = "idle"
    /\ LET r == RngPropertyFields(p)
       IN  /\ seed' = [seed EXCEPT ![p] = r.seed]
           /\ rng' = [rng EXCEPT ![p] = r.rng]
           /\ globalRng' = r.global
    /\ seededBy' = [seededBy EXCEPT ![p] =
                        IF IsNone(rng[p]) THEN "rng_property" ELSE @]
    /\ UNCHANGED <<draws, lastSetSeed, objVars, barrierVars>>

\* one draw from self.rng, as a subclass makes it in __call__
Draw(p) ==
    /\ pc = "idle"
    /\ Len(draws[p]) < MaxDraws
    /\ LET r == RngPropertyFields(p)
           d == DrawFrom(Val(r.rng))
       IN  /\ seed' = [seed EXCEPT ![p] = r.seed]
           /\ rng' = [rng EXCEPT ![p] = Some(d.state)]
           /\ globalRng' = r.global
           /\ draws' = [draws EXCEPT ![p] = Append(@, d.value)]
    /\ seededBy' = [seededBy EXCEPT ![p] =
                        IF IsNone(rng[p]) THEN "rng_property" ELSE @]
    /\ UNCHANGED <<lastSetSeed, objVars, barrierVars>>

\* the extra positional and keyword arguments bind_handler is called with
BindArgs == {<<>>, <<"env">>}

\* a slip: the handler is stored only when no extra context is given
BindHandlerNeedsNoContext(h, extra) == IF extra = <<>> THEN h ELSE NoHandler

\* self.handler after bind_handler(h, *extra) (line 53)
BindHandlerFields(h, extra) == h

\* bind_handler(h, *args, **kwargs) (lines 51-53)
BindHandler(p, h) ==
    /\ pc = "idle"
    /\ \E extra \in BindArgs :
        handler' = [handler EXCEPT ![p] = BindHandlerFields(h, extra)]
    /\ lastBound' = [lastBound EXCEPT ![p] = h]
    /\ UNCHANGED <<rngVars, options, barrierVars>>

(***************************************************************************)
(* The render-settle barrier.                                              *)
(***************************************************************************)
\* a call into a collaborator: the callee, the settle pass it belongs to
\* (0 outside the settle loop), the sensor it addresses (0 if none), its
\* arguments (update is called with dt=0, everything else without any) and,
\* for the capability queries of the sim, whether the call answered true
\* ("true"; "none" for an answer of false, a raise, and the calls whose
\* value the code drops)
Call(op) ==
    [op |-> op, pass |-> 0, sensor |-> 0, args |-> <<>>, result |-> "none"]
PassCall(op, k) ==
    [op |-> op, pass |-> k, sensor |-> 0, args |-> <<>>, result |-> "none"]
QueryCall(op, k, answer) ==
    [op |-> op, pass |-> k, sensor |-> 0, args |-> <<>>,
     result |-> IF answer = "true" THEN "true" ELSE "none"]
SceneUpdateCall(k) ==
    [op |-> "scene.update", pass |-> k, sensor |-> 0, args |-> <<0>>,
     result |-> "none"]
SensorUpdateCall(k, s) ==
    [op |-> "sensor.update", pass |-> k, sensor |-> s, args |-> <<0>>,
     result |-> "none"]

\* a log entry; cause and who are ghost: why it was emitted ("missing": the
\* collaborator is not installed, "no_api": it offers no wait capability,
\* "call_raised": a present collaborator raised) and the sensor concerned
LogEntry(level, msg, cause, who) ==
    [level |-> level, msg |-> msg, cause |-> cause, who |-> who]

Max(a, b) == IF a >= b THEN a ELSE b

\* a slip: the material wait handles ImportError only
MaterialExceptImportErrorOnly(kind) ==
    [caught |-> kind = "ImportError", level |-> "debug",
     msg |-> "Material library not available; skipping wait"]

\* the except clauses of _wait_for_material_library (lines 104-107)
MaterialExcept(kind) ==
    IF kind = "ImportError"
    THEN [caught |-> TRUE, level |-> "debug",
          msg |-> "Material library not available; skipping wait"]
    ELSE [caught |-> kind = "Exception", level |-> "warning",
          msg |-> "Failed to wait for material refreshes"]

\* a slip: the async flush handles ImportError only
AsyncExceptImportErrorOnly(kind) ==
    [caught |-> kind = "ImportError", level |-> "debug",
     msg |-> "Omniverse async engine not available; skipping wait_for_tasks"]

\* the except clauses of _wait_for_async_engine (lines 148-151)
AsyncExcept(kind) ==
    IF kind = "ImportError"
    THEN [caught |-> TRUE, level |-> "debug",
          msg |-> "Omniverse async engine not available; skipping wait_for_tasks"]
    ELSE [caught |-> kind = "Exception", level |-> "warning",
          msg |-> "Failed to wait for async tasks"]

\* a slip: a failed scene update is logged and the pass goes on
SceneUpdateExceptNoBreak ==
    [caught |-> TRUE, level |-> "debug",
     msg |-> "Scene update during settle failed", break |-> FALSE]

\* a slip: a failed sensor update ends the sensor loop of the pass
SensorUpdateExceptBreaks ==
    [caught |-> TRUE, level |-> "debug",
     msg |-> "Sensor update during settle failed", break |-> TRUE]

\* a slip: a failure in the render block ends the settle passes
RenderExceptBreaks ==
    [caught |-> TRUE, level |-> "debug",
     msg |-> "Sim render during settle failed", break |-> TRUE]

\* the except clauses of the settle loop (lines 124-126, 132-133, 139-140):
\* whether the exception is caught, how it is logged, whether the loop ends
SceneUpdateExcept ==
    [caught |-> TRUE, level |-> "debug",
     msg |-> "Scene update during settle failed", break |-> TRUE]
RenderExcept ==
    [caught |-> TRUE, level |-> "debug",
     msg |-> "Sim render during settle failed", break |-> FALSE]
SensorUpdateExcept ==
    [caught |-> TRUE, level |-> "debug",
     msg |-> "Sensor update during settle failed", break |-> FALSE]

\* a slip: the material wait runs whatever the flag says
FirstPhaseAlwaysWaits(wait_for_materials) == "mat_import"

\* the first phase _sync_visual_updates runs (lines 70-73)
FirstPhase(wait_for_materials) ==
    IF wait_for_materials THEN "mat_import" ELSE "settle_entry"

\* a slip: the async flush is attempted again after it has been handled
NextPhaseRetriesFlush(phase) ==
    CASE phase = "material" -> "settle_entry"
      [] phase = "settle" -> "async_import"
      [] phase = "async" -> "async_import"

\* a slip: the async flush is called before the settle passes
NextPhaseFlushFirst(phase) ==
    CASE phase = "material" -> "async_import"
      [] phase = "async" -> "settle_entry"
      [] phase = "settle" -> "done"

\* the statement _sync_visual_updates runs after a phase returns
\* (lines 71-74): settle after the material wait, the async flush after the
\* settle passes, the return to the caller after the flush
NextPhase(phase) ==
    CASE phase = "material" -> "settle_entry"
      [] phase = "settle" -> "async_import"
      [] phase = "async" -> "done"

\* a phase returns normally and _sync_visual_updates goes on
PhaseReturns(phase) ==
    /\ pc' = NextPhase(phase)
    /\ status' = IF NextPhase(phase) = "done" THEN "returned" ELSE "running"

\* a slip: the barrier draws a value from self.rng before it starts
SyncVisualUpdatesDrawsFirst(p, w, n) ==
    /\ pc = "idle"
    /\ self' = p
    /\ waitForMaterials' = w
    /\ settlePasses' = n
    /\ status' = "running"
    /\ pc' = FirstPhase(w)
    /\ LET r == RngPropertyFields(p)
       IN  /\ seed' = [seed EXCEPT ![p] = r.seed]
           /\ rng' = [rng EXCEPT ![p] = Some(DrawFrom(Val(r.rng)).state)]
           /\ globalRng' = r.global
    /\ UNCHANGED <<draws, seededBy, lastSetSeed, objVars, matVars, exc,
                   settleVars, ghostVars>>

\* _sync_visual_updates(wait_for_materials=w, settle_passes=n) is called on p
SyncVisualUpdates(p, w, n) ==
    /\ pc = "idle"
    /\ self' = p
    /\ waitForMaterials' = w
    /\ settlePasses' = n
    /\ status' = "running"
    /\ pc' = FirstPhase(w)
    /\ UNCHANGED <<rngVars, objVars, matVars, exc, settleVars, ghostVars>>

\* an exception escapes the barrier: the call ends by raising
Propagate ==
    /\ pc' = "done"
    /\ status' = "raised"
    /\ exc' = NoExc
    /\ matlib' = NoModule
    /\ instance' = {}
    /\ waited' = FALSE
    /\ passes' = 0
    /\ passIdx' = 0
    /\ sensorList' = <<>>
    /\ sensorIdx' = 0
    /\ UNCHANGED <<sceneRaisedAt, logged>>

(***************************************************************************)
(* Phase 1: _wait_for_material_library (lines 76-107).                     *)
(***************************************************************************)
\* where the try block goes once the module is imported (lines 82-100)
AfterImport(m) ==
    IF m.wait_fn THEN "mat_wait_fn"
    ELSE IF m.get_instance THEN "mat_get_instance"
    ELSE "mat_finish"

\* import omni.kit.material.library as matlib (line 80)
MatImport ==
    /\ pc = "mat_import"
    /\ calls' = Append(calls, Call("import omni.kit.material.library"))
    /\ \E o \in CallOutcomes :
        IF o = "ok"
        THEN \E m \in ModuleShapes :
                /\ matlib' = m
                /\ pc' = AfterImport(m)
                /\ exc' = NoExc
        ELSE /\ exc' = [kind |-> o,
                        cause |-> IF o = "ImportError" THEN "missing" ELSE "call_raised"]
             /\ pc' = "mat_except"
             /\ UNCHANGED matlib
    /\ UNCHANGED <<rngVars, objVars, argVars, instance, waited, settleVars,
                   logged, status>>

\* wait_fn() (lines 83-85)
MatWaitFn ==
    /\ pc = "mat_wait_fn"
    /\ calls' = Append(calls, Call("matlib.wait_for_pending_refreshes"))
    /\ \E o \in CallOutcomes :
        IF o = "ok"
        THEN /\ waited' = TRUE
             /\ pc' = "mat_finish"
             /\ exc' = NoExc
        ELSE /\ exc' = [kind |-> o, cause |-> "call_raised"]
             /\ pc' = "mat_except"
             /\ UNCHANGED waited
    /\ UNCHANGED <<rngVars, objVars, argVars, matlib, instance, settleVars,
                   logged, status>>

\* instance = get_instance() (lines 87-89)
MatGetInstance ==
    /\ pc = "mat_get_instance"
    /\ calls' = Append(calls, Call("matlib.get_instance"))
    /\ \E o \in CallOutcomes :
        IF o = "ok"
        THEN \E i \in InstanceShapes :
                /\ instance' = i
                /\ pc' = "mat_probe"
                /\ exc' = NoExc
        ELSE /\ exc' = [kind |-> o, cause |-> "call_raised"]
             /\ pc' = "mat_except"
             /\ UNCHANGED instance
    /\ UNCHANGED <<rngVars, objVars, argVars, matlib, waited, settleVars,
                   logged, status>>

\* a slip: the probing loop keeps the last candidate found, not the first
LastWaitMethod(inst) ==
    LET found == {i \in DOMAIN WaitMethodNames : WaitMethodNames[i] \in inst}
    IN  IF found = {} THEN 0
        ELSE CHOOSE i \in found : \A j \in found : i >= j

\* the for loop over the candidate names (lines 90-97): the index of the
\* first name that is a callable attribute of the instance, 0 if none is
FirstWaitMethod(inst) ==
    LET found == {i \in DOMAIN WaitMethodNames : WaitMethodNames[i] \in inst}
    IN  IF found = {} THEN 0
        ELSE CHOOSE i \in found : \A j \in found : i <= j

\* the call of the i-th candidate method on the singleton
MethodOp(i) == "instance." \o WaitMethodNames[i]

\* the probing loop and wait_method() (lines 90-100)
MatProbe ==
    /\ pc = "mat_probe"
    /\ LET i == FirstWaitMethod(instance)
       IN  IF i = 0
           THEN /\ pc' = "mat_finish"
                /\ UNCHANGED <<calls, waited, exc>>
           ELSE /\ calls' = Append(calls, Call(MethodOp(i)))
                /\ \E o \in CallOutcomes :
                    IF o = "ok"
                    THEN /\ waited' = TRUE
                         /\ pc' = "mat_finish"
                         /\ exc' = NoExc
                    ELSE /\ exc' = [kind |-> o, cause |-> "call_raised"]
                         /\ pc' = "mat_except"
                         /\ UNCHANGED waited
    /\ UNCHANGED <<rngVars, objVars, argVars, matlib, instance, settleVars,
                   logged, status>>

\* if not waited: logger.debug(...) (lines 102-103), then the phase returns
MatFinish ==
    /\ pc = "mat_finish"
    /\ logged' = IF waited THEN logged
                 ELSE logged \cup {LogEntry("debug",
                        "Material library exposes no pending-refresh wait API; continuing",
                        "no_api", 0)}
    /\ PhaseReturns("material")
    /\ matlib' = NoModule
    /\ instance' = {}
    /\ waited' = FALSE
    /\ UNCHANGED <<rngVars, objVars, argVars, exc, settleVars, calls>>

\* the except clauses (lines 104-107), then the phase returns
MatExcept ==
    /\ pc = "mat_except"
    /\ LET h == MaterialExcept(exc.kind)
       IN  IF h.caught
           THEN /\ logged' = logged \cup {LogEntry(h.level, h.msg, exc.cause, 0)}
                /\ PhaseReturns("material")
                /\ exc' = NoExc
                /\ matlib' = NoModule
                /\ instance' = {}
                /\ waited' = FALSE
                /\ UNCHANGED settleVars
           ELSE Propagate
    /\ UNCHANGED <<rngVars, objVars, argVars, calls>>

(***************************************************************************)
(* Phase 2: _settle_renderer_frames (lines 109-140).                       *)
(***************************************************************************)
\* the locals of _settle_renderer_frames go out of scope
LeaveSettle ==
    /\ passes' = 0
    /\ passIdx' = 0
    /\ sensorList' = <<>>
    /\ sensorIdx' = 0

\* a slip: only the handler is checked, not its scene
NothingToSettleHandlerOnly(h) == h.isNone

\* the early returns (lines 111-117): nothing to settle without a handler
\* or without a scene
NothingToSettle(h) == h.isNone \/ h.scene.kind # "present"

\* sim = getattr(handler, "sim", None) is not None (lines 119, 128)
HasSim(h) == h.sim = "present"

\* sensors = getattr(scene, "sensors", {}); sensors.values() (lines 135-136)
SensorValues(h) == IF h.scene.hasSensors THEN h.scene.sensors ELSE <<>>

\* a slip: at least one settle pass is always run
PassCountAtLeastOne(settle_passes) == Max(1, settle_passes)

\* passes = max(0, settle_passes) (line 120)
PassCount(settle_passes) == Max(0, settle_passes)

\* lines 111-120: the guards and the pass count
SettleEntry ==
    /\ pc = "settle_entry"
    /\ IF NothingToSettle(handler[self])
       THEN /\ PhaseReturns("settle")
            /\ UNCHANGED <<passes, passIdx>>
       ELSE /\ pc' = "loop"
            /\ passes' = PassCount(settlePasses)
            /\ passIdx' = 0
            /\ UNCHANGED status
    /\ UNCHANGED <<rngVars, objVars, argVars, matVars, exc, sensorList,
                   sensorIdx, sceneRaisedAt, ghostVars>>

\* for _ in range(passes) (line 121)
LoopHead ==
    /\ pc = "loop"
    /\ IF passIdx < passes
       THEN /\ pc' = "scene_update"
            /\ passIdx' = passIdx + 1
            /\ UNCHANGED <<passes, sensorList, sensorIdx, status>>
       ELSE /\ PhaseReturns("settle")
            /\ LeaveSettle
    /\ UNCHANGED <<rngVars, objVars, argVars, matVars, exc, sceneRaisedAt,
                   ghostVars>>

\* the statement after the scene update (line 128)
AfterSceneUpdate(h) == IF HasSim(h) THEN "has_gui" ELSE "read_sensors"

\* scene.update(dt=0) (lines 122-126)
SceneUpdate ==
    /\ pc = "scene_update"
    /\ calls' = Append(calls, SceneUpdateCall(passIdx))
    /\ \E o \in SettleOutcomes :
        IF o = "ok"
        THEN /\ pc' = AfterSceneUpdate(handler[self])
             /\ UNCHANGED <<matVars, exc, settleVars, logged, status>>
        ELSE IF SceneUpdateExcept.caught
        THEN /\ logged' = logged \cup
                    {LogEntry(SceneUpdateExcept.level, SceneUpdateExcept.msg,
                              "call_raised", 0)}
             /\ sceneRaisedAt' = passIdx
             /\ IF SceneUpdateExcept.break
                THEN PhaseReturns("settle") /\ LeaveSettle
                ELSE /\ pc' = AfterSceneUpdate(handler[self])
                     /\ UNCHANGED <<passes, passIdx, sensorList, sensorIdx,
                                    status>>
             /\ UNCHANGED <<matVars, exc>>
        ELSE Propagate
    /\ UNCHANGED <<rngVars, objVars, argVars>>

\* a call raised inside the render try block (lines 132-133)
RenderRaised ==
    IF RenderExcept.caught
    THEN /\ logged' = logged \cup
                {LogEntry(RenderExcept.level, RenderExcept.msg, "call_raised", 0)}
         /\ IF RenderExcept.break
            THEN PhaseReturns("settle") /\ LeaveSettle
            ELSE /\ pc' = "read_sensors"
                 /\ UNCHANGED <<passes, passIdx, sensorList, sensorIdx,
                                status>>
         /\ UNCHANGED <<matVars, exc, sceneRaisedAt>>
    ELSE Propagate

\* sim.has_gui() (line 130, left operand of `or`)
HasGui ==
    /\ pc = "has_gui"
    /\ \E o \in {"true", "false", "raise"} :
        /\ calls' = Append(calls, QueryCall("sim.has_gui", passIdx, o))
        /\ IF o = "raise" THEN RenderRaised
           ELSE /\ pc' = IF o = "true" THEN "render" ELSE "has_rtx_sensors"
                /\ UNCHANGED <<matVars, exc, settleVars, logged, status>>
    /\ UNCHANGED <<rngVars, objVars, argVars>>

\* sim.has_rtx_sensors() (line 130, right operand of `or`)
HasRtxSensors ==
    /\ pc = "has_rtx_sensors"
    /\ \E o \in {"true", "false", "raise"} :
        /\ calls' = Append(calls, QueryCall("sim.has_rtx_sensors", passIdx, o))
        /\ IF o = "raise" THEN RenderRaised
           ELSE /\ pc' = IF o = "true" THEN "render" ELSE "read_sensors"
                /\ UNCHANGED <<matVars, exc, settleVars, logged, status>>
    /\ UNCHANGED <<rngVars, objVars, argVars>>

\* sim.render() (line 131)
Render ==
    /\ pc = "render"
    /\ calls' = Append(calls, PassCall("sim.render", passIdx))
    /\ \E o \in SettleOutcomes :
        IF o = "raise" THEN RenderRaised
        ELSE /\ pc' = "read_sensors"
             /\ UNCHANGED <<matVars, exc, settleVars, logged, status>>
    /\ UNCHANGED <<rngVars, objVars, argVars>>

\* lines 135-136: the sensors of this pass
ReadSensors ==
    /\ pc = "read_sensors"
    /\ sensorList' = SensorValues(handler[self])
    /\ sensorIdx' = 1
    /\ pc' = IF SensorValues(handler[self]) = <<>> THEN "loop" ELSE "sensor_update"
    /\ UNCHANGED <<rngVars, objVars, argVars, matVars, exc, passes, passIdx,
                   sceneRaisedAt, ghostVars, status>>

\* the statement after one sensor's update: the next sensor, or the next pass
AfterSensor(idx, list) == IF idx >= Len(list) THEN "loop" ELSE "sensor_update"

\* sensor.update(dt=0) for the next sensor of the pass (lines 137-140)
SensorUpdate ==
    /\ pc = "sensor_update"
    /\ calls' = Append(calls, SensorUpdateCall(passIdx, sensorList[sensorIdx]))
    /\ \E o \in SettleOutcomes :
        IF o = "ok"
        THEN /\ pc' = AfterSensor(sensorIdx, sensorList)
             /\ sensorIdx' = sensorIdx + 1
             /\ UNCHANGED <<matVars, exc, passes, passIdx, sensorList,
                            sceneRaisedAt, logged, status>>
        ELSE IF SensorUpdateExcept.caught
        THEN /\ logged' = logged \cup
                    {LogEntry(SensorUpdateExcept.level, SensorUpdateExcept.msg,
                              "call_raised", sensorList[sensorIdx])}
             /\ IF SensorUpdateExcept.break
                THEN pc' = "loop" /\ sensorIdx' = sensorIdx
                ELSE /\ pc' = AfterSensor(sensorIdx, sensorList)
                     /\ sensorIdx' = sensorIdx + 1
             /\ UNCHANGED <<matVars, exc, passes, passIdx, sensorList,
                            sceneRaisedAt, status>>
        ELSE Propagate
    /\ UNCHANGED <<rngVars, objVars, argVars>>

(***************************************************************************)
(* Phase 3: _wait_for_async_engine (lines 142-151).                        *)
(***************************************************************************)
\* from omni.kit.async_engine import get_async_engine (line 145)
AsyncImport ==
    /\ pc = "async_import"
    /\ calls' = Append(calls, Call("import omni.kit.async_engine"))
    /\ \E o \in CallOutcomes :
        IF o = "ok"
        THEN /\ pc' = "async_get_engine"
             /\ exc' = NoExc
        ELSE /\ pc' = "async_except"
             /\ exc' = [kind |-> o,
                        cause |-> IF o = "ImportError" THEN "missing" ELSE "call_raised"]
    /\ UNCHANGED <<rngVars, objVars, argVars, matVars, settleVars, logged, status>>

\* get_async_engine() (line 147)
AsyncGetEngine ==
    /\ pc = "async_get_engine"
    /\ calls' = Append(calls, Call("get_async_engine"))
    /\ \E o \in CallOutcomes :
        IF o = "ok"
        THEN /\ pc' = "async_wait"
             /\ exc' = NoExc
        ELSE /\ pc' = "async_except"
             /\ exc' = [kind |-> o, cause |-> "call_raised"]
    /\ UNCHANGED <<rngVars, objVars, argVars, matVars, settleVars, logged, status>>

\* .wait_for_tasks() (line 147); on success the barrier returns
AsyncWaitForTasks ==
    /\ pc = "async_wait"
    /\ calls' = Append(calls, Call("engine.wait_for_tasks"))
    /\ \E o \in CallOutcomes :
        IF o = "ok"
        THEN /\ PhaseReturns("async")
             /\ exc' = NoExc
        ELSE /\ pc' = "async_except"
             /\ exc' = [kind |-> o, cause |-> "call_raised"]
             /\ UNCHANGED status
    /\ UNCHANGED <<rngVars, objVars, argVars, matVars, settleVars, logged>>

\* the except clauses (lines 148-151), then the barrier returns
AsyncExceptClauses ==
    /\ pc = "async_except"
    /\ LET h == AsyncExcept(exc.kind)
       IN  IF h.caught
           THEN /\ logged' = logged \cup {LogEntry(h.level, h.msg, exc.cause, 0)}
                /\ PhaseReturns("async")
                /\ exc' = NoExc
                /\ UNCHANGED <<matVars, settleVars>>
           ELSE Propagate
    /\ UNCHANGED <<rngVars, objVars, argVars, calls>>

\* the caller resumes after the barrier call has ended
Return ==
    /\ pc = "done"
    /\ pc' = "idle"
    /\ self' = 1
    /\ waitForMaterials' = FALSE
    /\ settlePasses' = 0
    /\ sceneRaisedAt' = 0
    /\ calls' = <<>>
    /\ logged' = {}
    /\ status' = "idle"
    /\ UNCHANGED <<rngVars, objVars, matVars, exc, passes, passIdx, sensorList,
                   sensorIdx>>

(***************************************************************************)
(* Specifications.                                                         *)
(***************************************************************************)
SettlePassArgs == -1 .. MaxPasses

BarrierStep ==
    \/ MatImport
    \/ MatWaitFn
    \/ MatGetInstance
    \/ MatProbe
    \/ MatFinish
    \/ MatExcept
    \/ SettleEntry
    \/ LoopHead
    \/ SceneUpdate
    \/ HasGui
    \/ HasRtxSensors
    \/ Render
    \/ ReadSensors
    \/ SensorUpdate
    \/ AsyncImport
    \/ AsyncGetEngine
    \/ AsyncWaitForTasks
    \/ AsyncExceptClauses
    \/ Return

Next ==
    \/ \E p \in Providers, a \in SeedArgs : SetSeed(p, a)
    \/ \E p \in Providers : ReadSeed(p)
    \/ \E p \in Providers : GetRng(p)
    \/ \E p \in Providers : Draw(p)
    \/ \E p \in Providers, h \in HandlerShapes : BindHandler(p, h)
    \/ \E p \in Providers, w \in BOOLEAN, n \in SettlePassArgs :
            SyncVisualUpdates(p, w, n)
    \/ BarrierStep

\* the whole randomizer
Spec == Init /\ [][Next]_vars

\* the barrier on one default-constructed randomizer, any handler bound
NextBarrier ==
    \/ \E h \in HandlerShapes : BindHandler(1, h)
    \/ \E w \in BOOLEAN, n \in SettlePassArgs : SyncVisualUpdates(1, w, n)
    \/ BarrierStep

SpecBarrier == InitDefault /\ [][NextBarrier]_vars

\* the seeded RNG providers, constructed with any seeds
NextRng ==
    \/ \E p \in Providers, a \in SeedArgs : SetSeed(p, a)
    \/ \E p \in Providers : ReadSeed(p)
    \/ \E p \in Providers : GetRng(p)
    \/ \E p \in Providers : Draw(p)

SpecRng == Init /\ [][NextRng]_vars

\* one provider, constructed with any seed, that is drawn from and reseeded,
\* every set_seed call observed
NextReseed ==
    \/ \E a \in SeedArgs : SetSeedObserved(1, a)
    \/ ReadSeed(1)
    \/ GetRng(1)
    \/ Draw(1)

SpecReseed == Init /\ [][NextReseed]_vars

\* the handlers bound in the life of one randomizer: none, one with a scene
\* of one sensor and a sim, one with a sim and no scene
OneSensorHandler ==
    [isNone |-> FALSE,
     scene |-> [kind |-> "present", hasSensors |-> TRUE, sensors |-> <<1>>],
     sim |-> "present"]
SimOnlyHandler ==
    [isNone |-> FALSE,
     scene |-> [kind |-> "absent", hasSensors |-> FALSE, sensors |-> <<>>],
     sim |-> "present"]
LifeHandlers == {NoHandler, OneSensorHandler, SimOnlyHandler}
\* the settle_passes its barrier calls are made with
LifePassArgs == {1}

\* randomizer 1 constructed with any seed argument and an option, randomizer
\* 2 with the defaults
InitLife ==
    /\ globalRng = 0
    /\ \E a \in SeedArgs :
        /\ seed = [p \in Providers |->
                    IF p = 1 THEN ConstructValues(a, globalRng).seed ELSE None]
        /\ rng = [p \in Providers |->
                    IF p = 1 THEN ConstructValues(a, globalRng).rng ELSE None]
    /\ seededBy = [p \in Providers |->
                        IF IsNone(seed[p]) THEN "unseeded" ELSE "constructor"]
    /\ options = [p \in Providers |-> IF p = 1 THEN {"strength"} ELSE {}]
    /\ handler = [p \in Providers |-> NoHandler]
    /\ lastBound = [p \in Providers |-> NoHandler]
    /\ draws = [p \in Providers |-> <<>>]
    /\ lastSetSeed = [p \in Providers |-> NotObserved]
    /\ BarrierIdle

\* every operation of one randomizer, in any order
NextLife ==
    \/ \E a \in SeedArgs : SetSeed(1, a)
    \/ ReadSeed(1)
    \/ GetRng(1)
    \/ Draw(1)
    \/ \E h \in LifeHandlers : BindHandler(1, h)
    \/ \E w \in BOOLEAN, n \in LifePassArgs : SyncVisualUpdates(1, w, n)
    \/ BarrierStep

SpecLife == InitLife /\ [][NextLife]_vars

\* barrier calls with any arguments on those handlers, every collaborator
\* call returning or raising: a barrier call in progress takes its next step
NextCall ==
    \/ \E h \in LifeHandlers : BindHandler(1, h)
    \/ \E w \in BOOLEAN, n \in SettlePassArgs : SyncVisualUpdates(1, w, n)
    \/ BarrierStep

SpecCallFair == InitDefault /\ [][NextCall]_vars /\ WF_vars(BarrierStep)

(***************************************************************************)
(* Vocabulary of the properties.                                           *)
(***************************************************************************)
Range(s) == {s[i] : i \in DOMAIN s}
WaitOps ==
    {"matlib.wait_for_pending_refreshes"}
    \cup {MethodOp(i) : i \in DOMAIN WaitMethodNames}
MaterialOps ==
    {"import omni.kit.material.library", "matlib.get_instance"} \cup WaitOps
RenderOps == {"sim.has_gui", "sim.has_rtx_sensors", "sim.render"}
SettleOps == {"scene.update", "sensor.update"} \cup RenderOps
AsyncOps ==
    {"import omni.kit.async_engine", "get_async_engine", "engine.wait_for_tasks"}
\* the phase a call belongs to
PhaseOf(c) ==
    IF c.op \in MaterialOps THEN 1 ELSE IF c.op \in SettleOps THEN 2 ELSE 3
\* the place of a settle call within its pass
SettleRank(c) ==
    IF c.op = "scene.update" THEN 1 ELSE IF c.op \in RenderOps THEN 2 ELSE 3
\* how many calls of `op` were made so far
Count(op) == Len(SelectSeq(calls, LAMBDA c : c.op = op))
\* how many times exactly the call c was made so far
Times(c) == Len(SelectSeq(calls, LAMBDA x : x = c))
\* whether the call c was made so far
Made(c) == \E i \in DOMAIN calls : calls[i] = c
Messages == {e.msg : e \in logged}
\* the handler the call runs on, as bound: whether it offers a scene object,
\* a sim object, and the sensors registered on its scene
Bound == handler[self]
BoundScene == ~Bound.isNone /\ Bound.scene.kind = "present"
BoundSim == ~Bound.isNone /\ Bound.sim = "present"
Registered == Bound.scene.sensors
MaterialSkipMessages ==
    {"Material library not available; skipping wait",
     "Material library exposes no pending-refresh wait API; continuing"}

(***************************************************************************)
(* C1: _sync_visual_updates never raises to its caller: whatever the       *)
(* arguments, the shape of the handler and the collaborators that are      *)
(* missing or raise, the call ends by returning normally.                  *)
(***************************************************************************)
C1_NeverRaises ==
    /\ status # "raised"
    /\ pc = "done" => status = "returned"

\* a call that returned although the material wait, a scene update and the
\* async flush all raised
C1_Witness ==
    /\ pc = "done"
    /\ status = "returned"
    /\ sceneRaisedAt > 0
    /\ "Failed to wait for material refreshes" \in Messages
    /\ "Failed to wait for async tasks" \in Messages

(***************************************************************************)
(* C2: within one call the calls into collaborators come phase by phase,   *)
(* material wait, then settle passes, then async flush; the settle calls   *)
(* come pass by pass, and in each pass the scene update is first, the      *)
(* capability queries and the render come next (the render last of them),  *)
(* and the sensor updates come after those.                                *)
(***************************************************************************)
C2_PhaseOrder ==
    \* stated of the call made last against every earlier call: the trace
    \* grows by one call per step, so as an invariant this covers every
    \* pair of calls made during one run of the barrier
    Len(calls) > 0 =>
        LET j == Len(calls)
            last == calls[j]
            phase == PhaseOf(last)
            rank == SettleRank(last)
        IN  /\ \A i \in 1 .. j - 1 :
                /\ PhaseOf(calls[i]) <= phase
                /\ (phase = 2 /\ PhaseOf(calls[i]) = 2) =>
                    /\ calls[i].pass <= last.pass
                    /\ calls[i].pass = last.pass =>
                        /\ SettleRank(calls[i]) <= rank
                        /\ last.op # "scene.update"
                        /\ calls[i].op = "sim.render" =>
                                last.op = "sensor.update"
            /\ phase = 2 => Made(SceneUpdateCall(last.pass))

\* a call that waited for materials, rendered and updated a sensor in its
\* second pass, and flushed the async engine
C2_Witness ==
    /\ pc = "done"
    /\ \E c \in Range(calls) : c.op \in WaitOps
    /\ PassCall("sim.render", 2) \in Range(calls)
    /\ \E s \in SensorIds : SensorUpdateCall(2, s) \in Range(calls)
    /\ Call("engine.wait_for_tasks") \in Range(calls)

(***************************************************************************)
(* C3: with settle_passes = N at most N scene updates are attempted, the   *)
(* k-th in pass k; if the k-th raises, no render, no sensor update and no  *)
(* further scene update follows in pass k or later, and the async flush is *)
(* still attempted afterwards.                                             *)
(***************************************************************************)
C3_SceneAbort ==
    /\ Count("scene.update") <= Max(0, settlePasses)
    /\ \A i \in DOMAIN calls :
        calls[i].op = "scene.update" =>
            calls[i].pass =
                Len(SelectSeq(SubSeq(calls, 1, i),
                              LAMBDA c : c.op = "scene.update"))
    /\ sceneRaisedAt > 0 =>
        \A i \in DOMAIN calls :
            calls[i].op \in SettleOps =>
                \/ calls[i].pass < sceneRaisedAt
                \/ calls[i] = SceneUpdateCall(sceneRaisedAt)
    /\ (pc = "done" /\ sceneRaisedAt > 0) =>
        \E i \in DOMAIN calls :
            /\ calls[i] = SceneUpdateCall(sceneRaisedAt)
            /\ \E j \in i + 1 .. Len(calls) :
                    calls[j].op = "import omni.kit.async_engine"

\* a call with two passes asked whose first scene update raised, on a
\* handler with a sim and two sensors
C3_Witness ==
    /\ pc = "done"
    /\ settlePasses = 2
    /\ sceneRaisedAt = 1
    /\ BoundScene
    /\ BoundSim
    /\ Len(Registered) = 2

(***************************************************************************)
(* C4: in every settle pass whose scene update succeeded each sensor of    *)
(* the scene gets exactly one update attempt, with dt = 0, whichever       *)
(* sensors raise and whatever the iteration order; no other sensor update  *)
(* is made, and sensor failures do not end the passes early.               *)
(***************************************************************************)
C4_EverySensorUpdated ==
    (pc = "done" /\ BoundScene) =>
        /\ \A k \in 1 .. Max(0, settlePasses) :
            (Made(SceneUpdateCall(k)) /\ k # sceneRaisedAt) =>
                \A s \in Range(Registered) :
                    Times(SensorUpdateCall(k, s)) = 1
        /\ \A i \in DOMAIN calls :
            calls[i].op = "sensor.update" =>
                /\ calls[i].sensor \in Range(Registered)
                /\ calls[i].args = <<0>>
                /\ Made(SceneUpdateCall(calls[i].pass))
                /\ calls[i].pass # sceneRaisedAt
        /\ sceneRaisedAt = 0 =>
            \A k \in 1 .. Max(0, settlePasses) :
                Made(SceneUpdateCall(k))

\* two passes over two sensors in which the first sensor of the iteration
\* order raised and the second was still updated, once in each pass
C4_Witness ==
    /\ pc = "done"
    /\ settlePasses = 2
    /\ sceneRaisedAt = 0
    /\ Registered = <<1, 2>>
    /\ \E e \in logged : e.msg = "Sensor update during settle failed" /\ e.who = 1
    /\ Times(SensorUpdateCall(1, 2)) = 1
    /\ Times(SensorUpdateCall(2, 2)) = 1

(***************************************************************************)
(* C5: with wait_for_materials = False the material library is neither     *)
(* imported, probed nor called during the call.                            *)
(***************************************************************************)
C5_NoMaterialAccess ==
    (status # "idle" /\ ~waitForMaterials) =>
        /\ \A i \in DOMAIN calls : calls[i].op \notin MaterialOps
        /\ pc \notin {"mat_import", "mat_wait_fn", "mat_get_instance",
                      "mat_probe", "mat_finish", "mat_except"}
        /\ matlib = NoModule
        /\ instance = {}

\* a call without material wait that ran a settle pass and ended
C5_Witness ==
    /\ pc = "done"
    /\ ~waitForMaterials
    /\ SceneUpdateCall(1) \in Range(calls)
    /\ Count("import omni.kit.async_engine") = 1

(***************************************************************************)
(* C6: the phases are isolated: when a call has ended, whatever happened   *)
(* in the material wait and in the settle passes, the settle phase was     *)
(* attempted (its first scene update was made when there is a scene and a  *)
(* pass to run) and the async flush was attempted exactly once.            *)
(***************************************************************************)
C6_PhasesIsolated ==
    pc = "done" =>
        /\ Count("import omni.kit.async_engine") = 1
        /\ waitForMaterials => Count("import omni.kit.material.library") = 1
        /\ (BoundScene /\ settlePasses >= 1) => Times(SceneUpdateCall(1)) = 1

\* a call in which the singleton's wait method raised and the first scene
\* update raised, and which still flushed the async engine
C6_Witness ==
    /\ pc = "done"
    /\ Count("matlib.get_instance") = 1
    /\ "Failed to wait for material refreshes" \in Messages
    /\ sceneRaisedAt = 1
    /\ Count("import omni.kit.async_engine") = 1

(***************************************************************************)
(* C7: every exception raised by a present collaborator is logged at       *)
(* warning level and a missing collaborator at debug level.  The settle    *)
(* loop logs its failures at debug level, so this does not hold.           *)
(***************************************************************************)
C7_FailuresLoggedAsWarnings ==
    \A e \in logged :
        /\ e.cause = "call_raised" => e.level = "warning"
        /\ e.cause = "missing" => e.level = "debug"

(***************************************************************************)
(* C8: the material wait invokes at most one wait capability, chosen by    *)
(* priority: the module-level function if there is one (the singleton is   *)
(* then not obtained); otherwise the singleton is obtained and the first   *)
(* of the four candidate methods it has is invoked, and no other, also     *)
(* when that one raises; nothing is invoked when the module is missing or  *)
(* offers no candidate, and the phase is then skipped with a debug entry.  *)
(***************************************************************************)
C8_OneWaitByPriority ==
    /\ Len(SelectSeq(calls, LAMBDA c : c.op \in WaitOps)) <= 1
    /\ Count("matlib.get_instance") <= 1
    /\ pc \in {"mat_finish", "mat_except"} =>
        LET made == SubSeq(calls, 2, Len(calls))
        IN  /\ calls[1] = Call("import omni.kit.material.library")
            /\ IF ~matlib.loaded THEN made = <<>>
               ELSE IF matlib.wait_fn
               THEN made = <<Call("matlib.wait_for_pending_refreshes")>>
               ELSE IF ~matlib.get_instance THEN made = <<>>
               ELSE IF instance = {} THEN made = <<Call("matlib.get_instance")>>
               ELSE \E i \in DOMAIN WaitMethodNames :
                        /\ WaitMethodNames[i] \in instance
                        /\ \A j \in 1 .. i - 1 : WaitMethodNames[j] \notin instance
                        /\ made = <<Call("matlib.get_instance"),
                                    Call("instance." \o WaitMethodNames[i])>>
    /\ \A e \in logged :
        (e.cause \in {"missing", "no_api"} /\ e.msg \in MaterialSkipMessages) =>
            /\ e.level = "debug"
            /\ status # "raised"
            /\ \A i \in DOMAIN calls :
                    PhaseOf(calls[i]) = 1 => calls[i].op \notin WaitOps

\* the singleton has the second and the fourth candidate; the second was
\* invoked and raised
C8_Witness ==
    /\ pc = "mat_except"
    /\ instance = {"wait_for_pending_compiles", "wait_for_pending_tasks"}
    /\ calls[Len(calls)] = Call("instance.wait_for_pending_compiles")

(***************************************************************************)
(* C9: the barrier does not raise with a null handler, a handler without   *)
(* scene or a scene without sensors; with no handler or no scene the       *)
(* settle phase makes no scene update, no capability query, no render and  *)
(* no sensor update whatever settle_passes is, and the async flush is      *)
(* still attempted.                                                        *)
(***************************************************************************)
C9_NoSceneNoOp ==
    /\ (status # "idle" /\ ~BoundScene) =>
        /\ status # "raised"
        /\ \A i \in DOMAIN calls : calls[i].op \notin SettleOps
        /\ pc = "done" => Count("import omni.kit.async_engine") = 1
    /\ (status # "idle" /\ BoundScene /\ Registered = <<>>) =>
        /\ status # "raised"
        /\ Count("sensor.update") = 0

\* a call with two passes asked on a handler that has no scene attribute
C9_Witness ==
    /\ pc = "done"
    /\ status = "returned"
    /\ ~handler[self].isNone
    /\ handler[self].scene.kind = "absent"
    /\ settlePasses = 2
    /\ Count("import omni.kit.async_engine") = 1

(***************************************************************************)
(* C10: two providers whose generators were created from the same seed S   *)
(* (at construction, by set_seed or lazily) have drawn the same values:    *)
(* their sequences of draws agree on every common prefix, whatever the     *)
(* process-wide generator did and however their operations interleave.     *)
(***************************************************************************)
C10_SameSeedSameDraws ==
    \A p, q \in Providers :
        (~IsNone(rng[p]) /\ ~IsNone(rng[q]) /\ seed[p] = seed[q]) =>
            \A i \in 1 .. Len(draws[p]) :
                i <= Len(draws[q]) => draws[p][i] = draws[q][i]

\* one provider seeded at construction, the other by set_seed after the
\* process-wide generator was used, both with the same seed and MaxDraws draws
C10_Witness ==
    /\ seededBy[1] = "constructor"
    /\ seededBy[2] = "set_seed"
    /\ seed[1] = seed[2]
    /\ Len(draws[1]) = MaxDraws
    /\ Len(draws[2]) = MaxDraws

(***************************************************************************)
(* Vocabulary of the properties about the seeded generators.               *)
(***************************************************************************)
\* provider p made a draw in this step
Drew(p) == Len(draws'[p]) = Len(draws[p]) + 1
\* the generator of provider p was created lazily by the rng property in
\* this step
LazilyCreated(p) ==
    /\ IsNone(rng[p])
    /\ ~IsNone(rng'[p])
    /\ seededBy'[p] = "rng_property"

(***************************************************************************)
(* C11: a provider constructed without a seed has no seed and no generator *)
(* until the rng property is first read, and reading the seed creates      *)
(* nothing; the first read of the rng property stores a seed taken from    *)
(* the process-wide generator and creates the generator from it; every     *)
(* later read returns that same generator: the seed is unchanged, the      *)
(* generator is neither replaced nor reset (a draw advances it by one      *)
(* step), and the process-wide generator is not drawn from again.          *)
(***************************************************************************)
C11_LazyInitOnce ==
    [][\A p \in Providers :
        /\ seededBy[p] = "unseeded" => (IsNone(seed[p]) /\ IsNone(rng[p]))
        /\ LazilyCreated(p) =>
            LET derived == GetRandBits(globalRng)
                fresh == NewRandom(derived.value)
            IN  /\ IsNone(seed[p])
                /\ seed'[p] = Some(derived.value)
                /\ globalRng' = derived.state
                /\ rng'[p] = IF Drew(p) THEN Some(DrawFrom(fresh).state)
                                        ELSE Some(fresh)
        /\ (~IsNone(rng[p]) /\ Drew(p)) =>
            /\ seed' = seed
            /\ globalRng' = globalRng
            /\ rng'[p] = Some(DrawFrom(Val(rng[p])).state)
            /\ draws'[p] = Append(draws[p], DrawFrom(Val(rng[p])).value)
        /\ (~IsNone(rng[p]) /\ seededBy'[p] = seededBy[p]
                /\ seededBy[p] # "set_seed") =>
            /\ seed'[p] = seed[p]
            /\ rng'[p] = rng[p] \/ Drew(p)
      ]_vars

\* a provider constructed without a seed whose generator was created by the
\* rng property and has been drawn from MaxDraws times since
C11_Witness ==
    /\ seededBy[1] = "rng_property"
    /\ ~IsNone(seed[1])
    /\ ~IsNone(rng[1])
    /\ Len(draws[1]) = MaxDraws

\* the values of n successive draws from a generator in state g
RECURSIVE DrawsOf(_, _)
DrawsOf(g, n) ==
    IF n = 0 THEN <<>>
    ELSE <<DrawFrom(g).value>> \o DrawsOf(DrawFrom(g).state, n - 1)
\* the state of a generator in state g after n draws
RECURSIVE StateAfter(_, _)
StateAfter(g, n) == IF n = 0 THEN g ELSE StateAfter(DrawFrom(g).state, n - 1)
\* the generator of a provider freshly constructed with seed s
FreshGenerator(s) == Val(ConstructValues(Some(s), 0).rng)

(***************************************************************************)
(* C12: set_seed on a provider that already has a generator discards that  *)
(* generator's state: however many draws were made before the call, the    *)
(* values drawn after set_seed(S2) are those a provider freshly            *)
(* constructed with seed S2 draws, and the seed property returns S2.       *)
(***************************************************************************)
C12_ReseedDiscards ==
    \A p \in Providers :
        lastSetSeed[p].called =>
            /\ ~IsNone(seed[p])
            /\ ~IsNone(lastSetSeed[p].arg) => seed[p] = lastSetSeed[p].arg
            /\ ~IsNone(rng[p])
            /\ draws[p] = DrawsOf(FreshGenerator(Val(seed[p])), Len(draws[p]))
            /\ Val(rng[p]) =
                    StateAfter(FreshGenerator(Val(seed[p])), Len(draws[p]))

\* a provider whose generator had made MaxDraws draws when set_seed(2)
\* replaced it, and which made MaxDraws draws again since
C12_Witness ==
    /\ lastSetSeed[1] = [called |-> TRUE, arg |-> Some(2), after |-> MaxDraws]
    /\ seed[1] = Some(2)
    /\ Len(draws[1]) = MaxDraws

(***************************************************************************)
(* C13: in every state reached by construction, set_seed (with a value or  *)
(* None), seed reads, rng reads, draws, bind_handler and barrier calls,    *)
(* the generator is consistent with the seed: whenever a generator exists  *)
(* the stored seed is an integer and the generator is the one initialised  *)
(* from exactly that seed and advanced by the draws made since; and the    *)
(* rng property never returns None.                                        *)
(***************************************************************************)
C13_RngConsistentWithSeed ==
    \A p \in Providers :
        /\ ~IsNone(rng[p]) =>
            /\ ~IsNone(seed[p])
            /\ Val(seed[p]) \in Int
            /\ Val(rng[p]) = StateAfter(NewRandom(Val(seed[p])), Len(draws[p]))
            /\ draws[p] = DrawsOf(NewRandom(Val(seed[p])), Len(draws[p]))
        /\ ~IsNone(RngPropertyFields(p).rng)

\* a randomizer seeded by set_seed(None) that drew MaxDraws values, was
\* bound to a handler with a scene, and finished a barrier call on it
C13_Witness ==
    /\ pc = "done"
    /\ self = 1
    /\ BoundScene
    /\ seededBy[1] = "set_seed"
    /\ Val(seed[1]) > MaxSeed
    /\ Len(draws[1]) = MaxDraws

(***************************************************************************)
(* Vocabulary of the properties about the settle passes.                   *)
(***************************************************************************)
QueryOps == {"sim.has_gui", "sim.has_rtx_sensors"}
\* the calls of `op` made so far in settle pass k
InPass(op, k) == {i \in DOMAIN calls : calls[i].op = op /\ calls[i].pass = k}
\* the settle passes asked for
Asked == 1 .. Max(0, settlePasses)
\* the call made last, and the one before it
Last == calls[Len(calls)]
Previous == calls[Len(calls) - 1]

(***************************************************************************)
(* C14: in each settle pass whose scene update succeeded the sim is        *)
(* rendered exactly once if the handler has a sim that answers true to     *)
(* has_gui() or, failing that, to has_rtx_sensors(), and is not rendered   *)
(* when there is no sim or it answers true to neither; an exception raised *)
(* by a capability query or by the render does not end the pass: the       *)
(* sensor updates of that pass and all remaining passes still run.         *)
(***************************************************************************)
C14_RenderWhenReported ==
    \* stated of the call made last: the trace grows by one call per step,
    \* so this covers every call of a barrier call
    /\ Len(calls) >= 2 =>
        /\ Last.op \in RenderOps =>
            /\ BoundSim
            /\ Last.pass = Previous.pass
            /\ Last.pass # sceneRaisedAt
        /\ Last.op = "sim.has_gui" => Previous = SceneUpdateCall(Last.pass)
        /\ Last.op = "sim.has_rtx_sensors" =>
                Previous = QueryCall("sim.has_gui", Last.pass, "false")
        /\ Last.op = "sim.render" =>
                (Previous.op \in QueryOps /\ Previous.result = "true")
        /\ (Previous.op \in QueryOps /\ Previous.result = "true") =>
                Last = PassCall("sim.render", Previous.pass)
        /\ (Previous.op = "scene.update" /\ Previous.pass # sceneRaisedAt
                /\ BoundSim) => Last.op = "sim.has_gui"
    /\ (Len(calls) >= 1 /\ Last.op \in QueryOps /\ Last.result = "true") =>
            (pc = "render" /\ passIdx = Last.pass)
    /\ (Len(calls) = 1 /\ Last.op \in SettleOps) => Last = SceneUpdateCall(1)
    /\ (pc = "done" /\ BoundScene) =>
            \A k \in Asked :
                (sceneRaisedAt = 0 \/ k < sceneRaisedAt) =>
                    /\ Cardinality(InPass("scene.update", k)) = 1
                    /\ Cardinality(InPass("sim.render", k)) <= 1
                    /\ \A s \in Range(Registered) :
                            Times(SensorUpdateCall(k, s)) = 1

\* two passes on a handler with a sim and two sensors: in the first has_gui
\* answered true and the render raised, in the second the sim answered
\* true to neither query and was not rendered; both sensors were updated
\* in both passes
C14_Witness ==
    /\ pc = "done"
    /\ settlePasses = 2
    /\ Registered = <<1, 2>>
    /\ QueryCall("sim.has_gui", 1, "true") \in Range(calls)
    /\ InPass("sim.render", 1) # {}
    /\ "Sim render during settle failed" \in Messages
    /\ InPass("sim.has_gui", 2) # {}
    /\ InPass("sim.has_rtx_sensors", 2) # {}
    /\ InPass("sim.render", 2) = {}
    /\ Times(SensorUpdateCall(1, 2)) = 1
    /\ Times(SensorUpdateCall(2, 2)) = 1

(***************************************************************************)
(* C15: on a handler with a scene, when no scene update raises, a call     *)
(* makes exactly max(0, settle_passes) scene updates, each with dt = 0;    *)
(* with settle_passes zero or negative it makes no scene update, no        *)
(* capability query, no render and no sensor update, and the async flush   *)
(* is still attempted.                                                     *)
(***************************************************************************)
C15_PassCount ==
    /\ (pc = "done" /\ BoundScene /\ sceneRaisedAt = 0) =>
            Count("scene.update") =
                (IF settlePasses > 0 THEN settlePasses ELSE 0)
    /\ \A i \in DOMAIN calls :
            calls[i].op = "scene.update" =>
                (calls[i].args = <<0>> /\ calls[i].pass \in Asked)
    /\ (status # "idle" /\ settlePasses <= 0) =>
            /\ \A i \in DOMAIN calls : calls[i].op \notin SettleOps
            /\ pc \notin {"scene_update", "has_gui", "has_rtx_sensors",
                          "render", "read_sensors", "sensor_update"}
            /\ pc = "done" => Count("import omni.kit.async_engine") = 1

\* a call with settle_passes = -1 on a handler with a scene of two sensors
\* and a sim, ended after the async flush was attempted
C15_Witness ==
    /\ pc = "done"
    /\ settlePasses = -1
    /\ BoundScene
    /\ BoundSim
    /\ Len(Registered) = 2
    /\ Count("import omni.kit.async_engine") = 1

\* the calls of one barrier call stay within their bounds
CallsBounded ==
    /\ Cardinality({i \in DOMAIN calls : calls[i].op \in WaitOps}) <= 1
    /\ Count("scene.update") <= Max(0, settlePasses)
    /\ \A c \in Range(calls) : c.op \in SettleOps => c.pass \in Asked
    /\ \A k \in Asked :
        /\ Cardinality(InPass("sim.render", k)) <= 1
        /\ \A s \in SensorIds :
            /\ Times(SensorUpdateCall(k, s)) <= 1
            /\ Times(SensorUpdateCall(k, s)) = 1 => s \in Range(Registered)
    /\ Count("import omni.kit.async_engine") <= 1
    /\ pc = "done" => Count("import omni.kit.async_engine") = 1

(***************************************************************************)
(* C16: provided every collaborator call returns or raises, a call of      *)
(* _sync_visual_updates ends, and it makes a bounded sequence of calls: at *)
(* most one material wait, at most max(0, settle_passes) scene updates, at *)
(* most one render per pass, at most one update per registered sensor per  *)
(* pass, and exactly one attempt to flush the async engine.                *)
(***************************************************************************)
C16_Terminates ==
    /\ []CallsBounded
    /\ (status = "running") ~> (pc = "done")

\* a call that ended after the material wait, MaxPasses full passes with a
\* render and a sensor update each, and the async flush
C16_Witness ==
    /\ pc = "done"
    /\ Cardinality({i \in DOMAIN calls : calls[i].op \in WaitOps}) = 1
    /\ Count("scene.update") = MaxPasses
    /\ Count("sim.render") = MaxPasses
    /\ Count("sensor.update") = MaxPasses
    /\ Count("engine.wait_for_tasks") = 1

(***************************************************************************)
(* C17: bind_handler stores the handler it is given, None included, in     *)
(* place of the one stored before, whatever extra arguments come with it,  *)
(* and the next barrier call works on that handler; it changes nothing     *)
(* else: the seed, the generator and its state, the options and the        *)
(* process-wide generator are as before.                                   *)
(***************************************************************************)
C17_BindOnlyRebinds ==
    /\ [](\A p \in Providers : handler[p] = lastBound[p])
    /\ [](status # "idle" =>
            LET h == lastBound[self]
                scene == ~h.isNone /\ h.scene.kind = "present"
            IN  /\ ~scene => \A c \in Range(calls) : c.op \notin SettleOps
                /\ (scene /\ pc = "done" /\ settlePasses >= 1) =>
                        Times(SceneUpdateCall(1)) = 1
                /\ \A c \in Range(calls) :
                        c.op = "sensor.update" =>
                            c.sensor \in Range(h.scene.sensors)
                /\ (h.isNone \/ h.sim # "present") =>
                        \A c \in Range(calls) : c.op \notin RenderOps)
    /\ [][(handler' # handler \/ lastBound' # lastBound) =>
            /\ \A p \in Providers :
                    (handler'[p] # handler[p] \/ lastBound'[p] # lastBound[p])
                        => handler'[p] = lastBound'[p]
            /\ UNCHANGED <<seed, rng, globalRng, draws, seededBy, options>>
            /\ UNCHANGED barrierVars
         ]_vars

\* a randomizer with a seed, MaxDraws draws made and an option set, bound to
\* the handler with a sim and no scene, after a barrier call on it ended
C17_Witness ==
    /\ pc = "done"
    /\ self = 1
    /\ lastBound[1] = SimOnlyHandler
    /\ handler[1] = SimOnlyHandler
    /\ ~IsNone(seed[1])
    /\ Len(draws[1]) = MaxDraws
    /\ options[1] = {"strength"}
    /\ Count("import omni.kit.async_engine") = 1

(***************************************************************************)
(* C18: _sync_visual_updates leaves the randomizer's own state as it was:  *)
(* whatever each phase does, no step of a call changes the stored seed,    *)
(* the generator (none is created, an existing one is not advanced), the   *)
(* bound handler or the options, and none draws from the process-wide      *)
(* generator.                                                              *)
(***************************************************************************)
C18_BarrierKeepsState ==
    [][(pc # "idle" \/ pc' # "idle") =>
            /\ seed' = seed
            /\ rng' = rng
            /\ globalRng' = globalRng
            /\ draws' = draws
            /\ handler' = handler
            /\ options' = options
      ]_vars

\* a call that ended on a randomizer with a seed, MaxDraws draws made, an
\* option set and a handler with a scene, in which the material wait, a
\* sensor update and the async flush raised
C18_Witness ==
    /\ pc = "done"
    /\ self = 1
    /\ handler[1] = OneSensorHandler
    /\ options[1] = {"strength"}
    /\ seededBy[1] = "constructor"
    /\ Len(draws[1]) = MaxDraws
    /\ "Failed to wait for material refreshes" \in Messages
    /\ "Sensor update during settle failed" \in Messages
    /\ "Failed to wait for async tasks" \in Messages

\* after this step provider p is as a set_seed call leaves it, and the step
\* changed p: the step is the set_seed call recorded in lastSetSeed'[p]
JustSetSeed(p) ==
    /\ lastSetSeed'[p].called
    /\ seededBy'[p] = "set_seed"
    /\ draws'[p] = <<>>
    /\ \/ seed'[p] # seed[p]
       \/ rng'[p] # rng[p]
       \/ draws'[p] # draws[p]
       \/ seededBy'[p] # seededBy[p]
       \/ lastSetSeed'[p] # lastSetSeed[p]
       \/ globalRng' # globalRng

(***************************************************************************)
(* C19: the process-wide generator is drawn from exactly once each time a  *)
(* seed is resolved from None (set_seed(None), or the first read of the    *)
(* rng property on an unseeded provider) and never otherwise: neither      *)
(* construction, set_seed with a value, reads of the seed, later reads of  *)
(* the rng property nor draws advance it; so set_seed(None) on a seeded    *)
(* provider replaces its seed by a newly derived one.                      *)
(***************************************************************************)
C19_GlobalDrawnOncePerDerivation ==
    /\ \A a \in SeedArgs : ConstructValues(a, globalRng).global = globalRng
    /\ [][LET derived == GetRandBits(globalRng)
          IN  /\ globalRng' # globalRng =>
                    /\ globalRng' = derived.state
                    /\ \E p \in Providers :
                        /\ seed'[p] = Some(derived.value)
                        /\ \/ LazilyCreated(p)
                           \/ JustSetSeed(p) /\ IsNone(lastSetSeed'[p].arg)
              /\ \A p \in Providers :
                    /\ LazilyCreated(p) =>
                            (globalRng' = derived.state
                                /\ seed'[p] = Some(derived.value))
                    /\ (JustSetSeed(p) /\ IsNone(lastSetSeed'[p].arg)) =>
                            (globalRng' = derived.state
                                /\ seed'[p] = Some(derived.value))
                    /\ (JustSetSeed(p) /\ ~IsNone(lastSetSeed'[p].arg)) =>
                            (globalRng' = globalRng
                                /\ seed'[p] = lastSetSeed'[p].arg)
                    /\ (~IsNone(rng[p]) /\ Drew(p)) => globalRng' = globalRng
         ]_vars

\* a provider whose generator had made MaxDraws draws when set_seed(None)
\* replaced its seed by one taken from the process-wide generator
C19_Witness ==
    /\ lastSetSeed[1] = [called |-> TRUE, arg |-> None, after |-> MaxDraws]
    /\ seededBy[1] = "set_seed"
    /\ draws[1] = <<>>
    /\ Val(seed[1]) > MaxSeed


====
